---------------------------- MODULE Spec2Model ----------------------------
(***************************************************************************)
(* Model of flask_pyoidc/auth_response_handler.py:                         *)
(* AuthResponseHandler.process_auth_response, the pipeline that turns an   *)
(* OIDC authorization response into an AuthenticationResult or an error.   *)
(*                                                                         *)
(* Conventions.                                                            *)
(*  - A Python mapping (oic Message, dict) is a function whose DOMAIN is   *)
(*    the set of keys it holds; `k in m` is k \in DOMAIN m.                *)
(*  - An optional Python value is a sequence of length 0 or 1: None is     *)
(*    <<>> and the value v is <<v>>.                                       *)
(*  - Each invocation of process_auth_response is a run r with its own     *)
(*    frame (arguments, locals, position pc, outcome).                     *)
(***************************************************************************)
EXTENDS Naturals, Sequences, FiniteSets, TLC

VARIABLES
    pc,               \* position of each run in process_auth_response
    auth_response,    \* argument auth_response of each run
    expected_state,   \* argument expected_state of each run
    expected_nonce,   \* argument expected_nonce of each run (optional)
    access_token,     \* local access_token (optional string)
    id_token_claims,  \* local id_token_claims (optional mapping)
    id_token_jwt,     \* local id_token_jwt (optional string)
    token_resp,       \* local token_resp (optional: unset until line 64 returns)
    userinfo,         \* local userinfo: <<>> unset, else <<reply>>, reply itself optional
    result,           \* returned AuthenticationResult (optional)
    exception,        \* raised exception (optional)
    calls             \* per run, the calls made on self._client and their returns

vars == <<pc, auth_response, expected_state, expected_nonce, access_token,
          id_token_claims, id_token_jwt, token_resp, userinfo, result,
          exception, calls>>

---------------------------------------------------------------------------
(* Bounds and value pools *)

\* number of distinct values of each compared string (state, nonce, sub)
NumVals == 2

Pool(names) == {names[i] : i \in 1..NumVals}

StateVals == Pool(<<"s1", "s2", "s3", "s4">>)
NonceVals == Pool(<<"n1", "n2", "n3", "n4">>)
SubVals == Pool(<<"u1", "u2", "u3", "u4">>)
ErrorVals == {"access_denied"}
CodeVals == {"c1"}
AuthAccessTokens == {"A1"}
TokenAccessTokens == {"A1", "A2"}
AuthJwts == {"J1"}
TokenJwts == {"J2"}

\* runs (invocations) with a frame in the model, and those Spec invokes
Runs == {1, 2}
SeqRuns == {1}

---------------------------------------------------------------------------
(* Python values *)

None == <<>>
Some(v) == <<v>>
Opt(S) == {None} \cup {Some(v) : v \in S}

EmptyMap == [k \in {} |-> k]

\* the mapping {k: v} when ov = Some(v), the empty mapping when ov is None
Field(k, ov) == IF ov = None THEN EmptyMap ELSE (k :> ov[1])

\* Mapping.get(k, None)
Get(m, k) == IF k \in DOMAIN m THEN Some(m[k]) ELSE None

\* bool(x) of a mapping: a mapping is truthy iff it holds a key
Truthy(m) == DOMAIN m # {}

\* ID-token claims: `sub` and `nonce`, each possibly missing
IdTokens == {Field("sub", s) @@ Field("nonce", n) : s \in Opt(SubVals), n \in Opt(NonceVals)}

\* oic Message.to_dict(): a plain dict with the same keys, nested messages converted
claims_to_dict(m) == [k \in DOMAIN m |-> m[k]]
to_dict(m) == [k \in DOMAIN m |-> IF k = "id_token" THEN claims_to_dict(m[k]) ELSE m[k]]

\* parsed authorization responses (argument auth_response)
AuthResponses ==
    {Field("error", e) @@ Field("state", s) @@ Field("code", c) @@ Field("access_token", a)
        @@ Field("id_token", i) @@ Field("id_token_jwt", j) :
        e \in Opt(ErrorVals), s \in Opt(StateVals), c \in Opt(CodeVals),
        a \in Opt(AuthAccessTokens), i \in Opt(IdTokens), j \in Opt(AuthJwts)}

\* replies of self._client.token_request
TokenResponses ==
    {Field("error", e) @@ Field("access_token", a) @@ Field("id_token", i)
        @@ Field("id_token_jwt", j) :
        e \in Opt(ErrorVals), a \in Opt(TokenAccessTokens), i \in Opt(IdTokens),
        j \in Opt(TokenJwts)}

\* replies of self._client.userinfo_request: None, an empty message, or claims
UserinfoClaims == {Field("sub", s) @@ Field("name", n) : s \in Opt(SubVals), n \in Opt({"x"})}
UserinfoReplies == Opt(UserinfoClaims)

\* exceptions
Exc(type, payload, message) == [type |-> type, error_response |-> payload, message |-> message]
AuthResponseErrorResponseError(error_response) ==
    Exc("AuthResponseErrorResponseError", Some(error_response), None)
AuthResponseUnexpectedStateError == Exc("AuthResponseUnexpectedStateError", None, None)
AuthResponseUnexpectedNonceError == Exc("AuthResponseUnexpectedNonceError", None, None)
AuthResponseMismatchingSubjectError(message) ==
    Exc("AuthResponseMismatchingSubjectError", None, Some(message))
KeyError(key) == Exc("KeyError", None, Some(key))
TransportError == Exc("TransportError", None, None)

AuthenticationResult(at, claims, jwt, uclaims) ==
    [access_token |-> at, id_token_claims |-> claims, id_token_jwt |-> jwt,
     userinfo_claims |-> uclaims]

\* entries of the call log
Call(op, arg) == [op |-> op, ev |-> "call", arg |-> arg]
Return(op) == [op |-> op, ev |-> "return", arg |-> None]
Raised(op) == [op |-> op, ev |-> "raise", arg |-> None]

---------------------------------------------------------------------------
(* The decisions of process_auth_response, as functions of its values *)

\* variant: the state is checked before the error key
ClassifyFailure_StateFirst(ar, es) ==
    IF "state" \in DOMAIN ar /\ ar["state"] # es THEN Some(AuthResponseUnexpectedStateError)
    ELSE IF "error" \in DOMAIN ar THEN Some(AuthResponseErrorResponseError(to_dict(ar)))
    ELSE IF "state" \notin DOMAIN ar THEN Some(KeyError("state"))
    ELSE None

\* variant: the state is checked only when the response brings no code
ClassifyFailure_NoStateCheckWithCode(ar, es) ==
    IF "error" \in DOMAIN ar THEN Some(AuthResponseErrorResponseError(to_dict(ar)))
    ELSE IF "state" \notin DOMAIN ar THEN Some(KeyError("state"))
    ELSE IF "code" \notin DOMAIN ar /\ ar["state"] # es
        THEN Some(AuthResponseUnexpectedStateError)
    ELSE None

\* variant: the exception of a state mismatch tells the state it received
ClassifyFailure_EchoState(ar, es) ==
    IF "error" \in DOMAIN ar THEN Some(AuthResponseErrorResponseError(to_dict(ar)))
    ELSE IF "state" \notin DOMAIN ar THEN Some(KeyError("state"))
    ELSE IF ar["state"] # es
        THEN Some(Exc("AuthResponseUnexpectedStateError", None, Some(ar["state"])))
    ELSE None

\* lines 52-56: the exception the classification raises, None when it passes
ClassifyFailure(ar, es) ==
    IF "error" \in DOMAIN ar THEN Some(AuthResponseErrorResponseError(to_dict(ar)))
    ELSE IF "state" \notin DOMAIN ar THEN Some(KeyError("state"))
    ELSE IF ar["state"] # es THEN Some(AuthResponseUnexpectedStateError)
    ELSE None

\* variant: the access token of the authorization response is read under the wrong key
ImplicitAccessToken_WrongKey(ar) == Get(ar, "token")

\* line 59
ImplicitAccessToken(ar) == Get(ar, "access_token")

\* line 60
ImplicitIdTokenClaims(ar) ==
    IF "id_token" \in DOMAIN ar THEN Some(claims_to_dict(ar["id_token"])) ELSE None

\* line 61
ImplicitIdTokenJwt(ar) ==
    IF "id_token_jwt" \in DOMAIN ar THEN Get(ar, "id_token_jwt") ELSE None

\* variant: the error key of the token response is looked at only when it brings no token
ExchangeFailure_TokenBeforeError(tr, en) ==
    IF "error" \in DOMAIN tr /\ "access_token" \notin DOMAIN tr
        THEN Some(AuthResponseErrorResponseError(to_dict(tr)))
    ELSE IF "access_token" \notin DOMAIN tr THEN Some(KeyError("access_token"))
    ELSE IF "id_token" \notin DOMAIN tr THEN None
    ELSE IF "nonce" \notin DOMAIN tr["id_token"] THEN Some(KeyError("nonce"))
    ELSE IF Some(tr["id_token"]["nonce"]) # en THEN Some(AuthResponseUnexpectedNonceError)
    ELSE None

\* lines 66-76: the exception the handling of the token response raises, None when it passes
ExchangeFailure(tr, en) ==
    IF "error" \in DOMAIN tr THEN Some(AuthResponseErrorResponseError(to_dict(tr)))
    ELSE IF "access_token" \notin DOMAIN tr THEN Some(KeyError("access_token"))
    ELSE IF "id_token" \notin DOMAIN tr THEN None
    ELSE IF "nonce" \notin DOMAIN tr["id_token"] THEN Some(KeyError("nonce"))
    ELSE IF Some(tr["id_token"]["nonce"]) # en THEN Some(AuthResponseUnexpectedNonceError)
    ELSE None

\* variant: the token response's access token fills in only a missing access token
ExchangedAccessToken_KeepImplicit(at, tr) ==
    IF "error" \notin DOMAIN tr /\ "access_token" \in DOMAIN tr /\ at = None
    THEN Some(tr["access_token"]) ELSE at

\* line 69: access_token after the assignment, when the token response has no error;
\* line 69 is not reached, or raises, when the response has an error or no access_token
ExchangedAccessToken(at, tr) ==
    IF "error" \notin DOMAIN tr /\ "access_token" \in DOMAIN tr
    THEN Some(tr["access_token"]) ELSE at

\* line 78: id_token_claims after the code exchange passed
ExchangedIdTokenClaims(claims, tr) ==
    IF "id_token" \in DOMAIN tr THEN Some(claims_to_dict(tr["id_token"])) ELSE claims

\* variant: token_resp.get('id_token_jwt', id_token_jwt), the old value as default
ExchangedIdTokenJwt_KeepImplicit(jwt, tr) ==
    IF "id_token" \in DOMAIN tr /\ "id_token_jwt" \in DOMAIN tr
    THEN Get(tr, "id_token_jwt") ELSE jwt

\* line 79: id_token_jwt after the code exchange passed
ExchangedIdTokenJwt(jwt, tr) ==
    IF "id_token" \in DOMAIN tr THEN Get(tr, "id_token_jwt") ELSE jwt

\* line 82: the argument of userinfo_request
UserinfoArgument(at) == at

\* variant: `if userinfo is not None` instead of `if userinfo`
UserinfoClaimsOf_NotNone(reply) ==
    IF reply # None THEN Some(to_dict(reply[1])) ELSE None

\* lines 83-85: userinfo_claims from the reply of userinfo_request
UserinfoClaimsOf(reply) ==
    IF reply # None /\ Truthy(reply[1]) THEN Some(to_dict(reply[1])) ELSE None

\* variant: the subjects are compared but a difference is not raised
SubjectFailure_MismatchIgnored(claims, uclaims) ==
    IF claims = None \/ ~Truthy(claims[1]) THEN None
    ELSE IF uclaims = None \/ ~Truthy(uclaims[1]) THEN None
    ELSE IF "sub" \notin DOMAIN uclaims[1] THEN Some(KeyError("sub"))
    ELSE IF "sub" \notin DOMAIN claims[1] THEN Some(KeyError("sub"))
    ELSE None

\* lines 87-88: the exception the subject check raises, None when it passes
SubjectFailure(claims, uclaims) ==
    IF claims = None \/ ~Truthy(claims[1]) THEN None
    ELSE IF uclaims = None \/ ~Truthy(uclaims[1]) THEN None
    ELSE IF "sub" \notin DOMAIN uclaims[1] THEN Some(KeyError("sub"))
    ELSE IF "sub" \notin DOMAIN claims[1] THEN Some(KeyError("sub"))
    ELSE IF uclaims[1]["sub"] # claims[1]["sub"]
        THEN Some(AuthResponseMismatchingSubjectError(
                 "The 'sub' of userinfo does not match 'sub' of ID Token."))
    ELSE None

---------------------------------------------------------------------------
(* State machine *)

Init ==
    /\ pc = [r \in Runs |-> "idle"]
    /\ auth_response = [r \in Runs |-> EmptyMap]
    /\ expected_state = [r \in Runs |-> ""]
    /\ expected_nonce = [r \in Runs |-> None]
    /\ access_token = [r \in Runs |-> None]
    /\ id_token_claims = [r \in Runs |-> None]
    /\ id_token_jwt = [r \in Runs |-> None]
    /\ token_resp = [r \in Runs |-> None]
    /\ userinfo = [r \in Runs |-> None]
    /\ result = [r \in Runs |-> None]
    /\ exception = [r \in Runs |-> None]
    /\ calls = [r \in Runs |-> <<>>]

\* `raise exc` in run r
Raise(r, exc) ==
    /\ pc' = [pc EXCEPT ![r] = "Failed"]
    /\ exception' = [exception EXCEPT ![r] = Some(exc)]

\* a caller invokes process_auth_response(auth_response, expected_state, expected_nonce)
Invoke(r) ==
    /\ pc[r] = "idle"
    /\ \E ar \in AuthResponses, es \in StateVals, en \in Opt(NonceVals) :
        /\ auth_response' = [auth_response EXCEPT ![r] = ar]
        /\ expected_state' = [expected_state EXCEPT ![r] = es]
        /\ expected_nonce' = [expected_nonce EXCEPT ![r] = en]
    /\ pc' = [pc EXCEPT ![r] = "Start"]
    /\ UNCHANGED <<access_token, id_token_claims, id_token_jwt, token_resp, userinfo,
                   result, exception, calls>>

\* variant: the handler remembers the states it has seen and refuses a state twice
Classify_StateOnlyOnce(r) ==
    /\ pc[r] = "Start"
    /\ LET failure == ClassifyFailure(auth_response[r], expected_state[r])
           seen == \E q \in Runs \ {r} :
                       /\ pc[q] \notin {"idle", "Start"}
                       /\ expected_state[q] = expected_state[r]
       IN
        IF failure # None
        THEN Raise(r, failure[1])
        ELSE IF seen
        THEN Raise(r, AuthResponseUnexpectedStateError)
        ELSE /\ pc' = [pc EXCEPT ![r] = "Classified"]
             /\ UNCHANGED exception
    /\ UNCHANGED <<auth_response, expected_state, expected_nonce, access_token,
                   id_token_claims, id_token_jwt, token_resp, userinfo, result, calls>>

\* lines 52-56
Classify(r) ==
    /\ pc[r] = "Start"
    /\ LET failure == ClassifyFailure(auth_response[r], expected_state[r]) IN
        IF failure # None
        THEN Raise(r, failure[1])
        ELSE /\ pc' = [pc EXCEPT ![r] = "Classified"]
             /\ UNCHANGED exception
    /\ UNCHANGED <<auth_response, expected_state, expected_nonce, access_token,
                   id_token_claims, id_token_jwt, token_resp, userinfo, result, calls>>

\* variant: the extracted tokens are kept on the handler, which all runs share
ImplicitExtract_OnHandler(r) ==
    /\ pc[r] = "Classified"
    /\ access_token' = [q \in Runs |-> ImplicitAccessToken(auth_response[r])]
    /\ id_token_claims' = [q \in Runs |-> ImplicitIdTokenClaims(auth_response[r])]
    /\ id_token_jwt' = [q \in Runs |-> ImplicitIdTokenJwt(auth_response[r])]
    /\ pc' = [pc EXCEPT ![r] = "ImplicitExtracted"]
    /\ UNCHANGED <<auth_response, expected_state, expected_nonce, token_resp, userinfo,
                   result, exception, calls>>

\* lines 58-61
ImplicitExtract(r) ==
    /\ pc[r] = "Classified"
    /\ access_token' = [access_token EXCEPT ![r] = ImplicitAccessToken(auth_response[r])]
    /\ id_token_claims' =
        [id_token_claims EXCEPT ![r] = ImplicitIdTokenClaims(auth_response[r])]
    /\ id_token_jwt' = [id_token_jwt EXCEPT ![r] = ImplicitIdTokenJwt(auth_response[r])]
    /\ pc' = [pc EXCEPT ![r] = "ImplicitExtracted"]
    /\ UNCHANGED <<auth_response, expected_state, expected_nonce, token_resp, userinfo,
                   result, exception, calls>>

\* variant: token_request is made with the state instead of the code
TokenRequest_StateAsCode(r) ==
    /\ pc[r] = "ImplicitExtracted"
    /\ "code" \in DOMAIN auth_response[r]
    /\ calls' = [calls EXCEPT ![r] =
                    Append(@, Call("token_request", Some(auth_response[r]["state"])))]
    /\ pc' = [pc EXCEPT ![r] = "token_request"]
    /\ UNCHANGED <<auth_response, expected_state, expected_nonce, access_token,
                   id_token_claims, id_token_jwt, token_resp, userinfo, result, exception>>

\* lines 63-64: the call of self._client.token_request is made
TokenRequest(r) ==
    /\ pc[r] = "ImplicitExtracted"
    /\ "code" \in DOMAIN auth_response[r]
    /\ calls' = [calls EXCEPT ![r] =
                    Append(@, Call("token_request", Some(auth_response[r]["code"])))]
    /\ pc' = [pc EXCEPT ![r] = "token_request"]
    /\ UNCHANGED <<auth_response, expected_state, expected_nonce, access_token,
                   id_token_claims, id_token_jwt, token_resp, userinfo, result, exception>>

\* line 64: token_request returns a token response
TokenRequestReturn(r) ==
    /\ pc[r] = "token_request"
    /\ \E tr \in TokenResponses : token_resp' = [token_resp EXCEPT ![r] = Some(tr)]
    /\ calls' = [calls EXCEPT ![r] = Append(@, Return("token_request"))]
    /\ pc' = [pc EXCEPT ![r] = "token_returned"]
    /\ UNCHANGED <<auth_response, expected_state, expected_nonce, access_token,
                   id_token_claims, id_token_jwt, userinfo, result, exception>>

\* variant: a failed token_request is tried again
TokenRequestRaise_Retry(r) ==
    /\ pc[r] = "token_request"
    /\ calls' = [calls EXCEPT ![r] = Append(@, Raised("token_request"))]
    /\ pc' = [pc EXCEPT ![r] = "ImplicitExtracted"]
    /\ UNCHANGED <<auth_response, expected_state, expected_nonce, access_token,
                   id_token_claims, id_token_jwt, token_resp, userinfo, result, exception>>

\* line 64: token_request fails with a transport error, which propagates
TokenRequestRaise(r) ==
    /\ pc[r] = "token_request"
    /\ calls' = [calls EXCEPT ![r] = Append(@, Raised("token_request"))]
    /\ Raise(r, TransportError)
    /\ UNCHANGED <<auth_response, expected_state, expected_nonce, access_token,
                   id_token_claims, id_token_jwt, token_resp, userinfo, result>>

\* lines 66-79
CodeExchange(r) ==
    /\ pc[r] = "token_returned"
    /\ LET tr == token_resp[r][1]
           failure == ExchangeFailure(tr, expected_nonce[r])
       IN
        /\ access_token' = [access_token EXCEPT ![r] = ExchangedAccessToken(@, tr)]
        /\ IF failure # None
           THEN /\ Raise(r, failure[1])
                /\ UNCHANGED <<id_token_claims, id_token_jwt>>
           ELSE /\ id_token_claims' =
                    [id_token_claims EXCEPT ![r] = ExchangedIdTokenClaims(@, tr)]
                /\ id_token_jwt' = [id_token_jwt EXCEPT ![r] = ExchangedIdTokenJwt(@, tr)]
                /\ pc' = [pc EXCEPT ![r] = "CodeExchanged"]
                /\ UNCHANGED exception
    /\ UNCHANGED <<auth_response, expected_state, expected_nonce, token_resp, userinfo,
                   result, calls>>

\* variant: without an access token userinfo_request is not made
UserinfoRequest_SkipWithoutToken(r) ==
    /\ \/ pc[r] = "ImplicitExtracted" /\ "code" \notin DOMAIN auth_response[r]
       \/ pc[r] = "CodeExchanged"
    /\ IF access_token[r] = None
       THEN /\ userinfo' = [userinfo EXCEPT ![r] = Some(None)]
            /\ pc' = [pc EXCEPT ![r] = "UserInfoFetched"]
            /\ UNCHANGED calls
       ELSE /\ calls' = [calls EXCEPT ![r] =
                    Append(@, Call("userinfo_request", UserinfoArgument(access_token[r])))]
            /\ pc' = [pc EXCEPT ![r] = "userinfo_request"]
            /\ UNCHANGED userinfo
    /\ UNCHANGED <<auth_response, expected_state, expected_nonce, access_token,
                   id_token_claims, id_token_jwt, token_resp, result, exception>>

\* variant: userinfo_request is made right after the extraction, code or no code
UserinfoRequest_BeforeExchange(r) ==
    /\ pc[r] = "ImplicitExtracted"
    /\ calls' = [calls EXCEPT ![r] =
                    Append(@, Call("userinfo_request", UserinfoArgument(access_token[r])))]
    /\ pc' = [pc EXCEPT ![r] = "userinfo_request"]
    /\ UNCHANGED <<auth_response, expected_state, expected_nonce, access_token,
                   id_token_claims, id_token_jwt, token_resp, userinfo, result, exception>>

\* line 82: the call of self._client.userinfo_request is made
UserinfoRequest(r) ==
    /\ \/ pc[r] = "ImplicitExtracted" /\ "code" \notin DOMAIN auth_response[r]
       \/ pc[r] = "CodeExchanged"
    /\ calls' = [calls EXCEPT ![r] =
                    Append(@, Call("userinfo_request", UserinfoArgument(access_token[r])))]
    /\ pc' = [pc EXCEPT ![r] = "userinfo_request"]
    /\ UNCHANGED <<auth_response, expected_state, expected_nonce, access_token,
                   id_token_claims, id_token_jwt, token_resp, userinfo, result, exception>>

\* line 82: userinfo_request returns
UserinfoRequestReturn(r) ==
    /\ pc[r] = "userinfo_request"
    /\ \E reply \in UserinfoReplies : userinfo' = [userinfo EXCEPT ![r] = Some(reply)]
    /\ calls' = [calls EXCEPT ![r] = Append(@, Return("userinfo_request"))]
    /\ pc' = [pc EXCEPT ![r] = "UserInfoFetched"]
    /\ UNCHANGED <<auth_response, expected_state, expected_nonce, access_token,
                   id_token_claims, id_token_jwt, token_resp, result, exception>>

\* line 82: userinfo_request fails with a transport error, which propagates
UserinfoRequestRaise(r) ==
    /\ pc[r] = "userinfo_request"
    /\ calls' = [calls EXCEPT ![r] = Append(@, Raised("userinfo_request"))]
    /\ Raise(r, TransportError)
    /\ UNCHANGED <<auth_response, expected_state, expected_nonce, access_token,
                   id_token_claims, id_token_jwt, token_resp, userinfo, result>>

\* variant: on a subject mismatch the result built so far is still handed out
Assemble_PartialResult(r) ==
    /\ pc[r] = "UserInfoFetched"
    /\ LET userinfo_claims == UserinfoClaimsOf(userinfo[r][1])
           failure == SubjectFailure(id_token_claims[r], userinfo_claims)
       IN
        /\ result' = [result EXCEPT ![r] =
                Some(AuthenticationResult(access_token[r], id_token_claims[r],
                                          id_token_jwt[r], userinfo_claims))]
        /\ IF failure # None
           THEN Raise(r, failure[1])
           ELSE /\ pc' = [pc EXCEPT ![r] = "Assembled"]
                /\ UNCHANGED exception
    /\ UNCHANGED <<auth_response, expected_state, expected_nonce, access_token,
                   id_token_claims, id_token_jwt, token_resp, userinfo, calls>>

\* lines 83-90
Assemble(r) ==
    /\ pc[r] = "UserInfoFetched"
    /\ LET userinfo_claims == UserinfoClaimsOf(userinfo[r][1])
           failure == SubjectFailure(id_token_claims[r], userinfo_claims)
       IN
        IF failure # None
        THEN /\ Raise(r, failure[1])
             /\ UNCHANGED result
        ELSE /\ result' = [result EXCEPT ![r] =
                    Some(AuthenticationResult(access_token[r], id_token_claims[r],
                                              id_token_jwt[r], userinfo_claims))]
             /\ pc' = [pc EXCEPT ![r] = "Assembled"]
             /\ UNCHANGED exception
    /\ UNCHANGED <<auth_response, expected_state, expected_nonce, access_token,
                   id_token_claims, id_token_jwt, token_resp, userinfo, calls>>

Step(r) ==
    \/ Invoke(r)
    \/ Classify(r)
    \/ ImplicitExtract(r)
    \/ TokenRequest(r)
    \/ TokenRequestReturn(r)
    \/ TokenRequestRaise(r)
    \/ CodeExchange(r)
    \/ UserinfoRequest(r)
    \/ UserinfoRequestReturn(r)
    \/ UserinfoRequestRaise(r)
    \/ Assemble(r)

\* one invocation of process_auth_response
Next == \E r \in SeqRuns : Step(r)

Spec == Init /\ [][Next]_vars

\* the steps of an invoked run: the statements of process_auth_response execute one
\* after the other, and a call on self._client returns or raises
Proceed(r) ==
    \/ Classify(r)
    \/ ImplicitExtract(r)
    \/ TokenRequest(r)
    \/ TokenRequestReturn(r)
    \/ TokenRequestRaise(r)
    \/ CodeExchange(r)
    \/ UserinfoRequest(r)
    \/ UserinfoRequestReturn(r)
    \/ UserinfoRequestRaise(r)
    \/ Assemble(r)

\* one invocation whose statements and collaborator calls do not hang
FairSpec == Spec /\ \A r \in SeqRuns : WF_vars(Proceed(r))

---------------------------------------------------------------------------
(* A second invocation on the same handler, with the same arguments, against *)
(* collaborators that answer as they answered the first                       *)

First == 1
Second == 2

\* the first invocation is over; process_auth_response is invoked again with the
\* same arguments
InvokeAgain(r) ==
    /\ pc[r] = "idle"
    /\ pc[First] \in {"Assembled", "Failed"}
    /\ auth_response' = [auth_response EXCEPT ![r] = auth_response[First]]
    /\ expected_state' = [expected_state EXCEPT ![r] = expected_state[First]]
    /\ expected_nonce' = [expected_nonce EXCEPT ![r] = expected_nonce[First]]
    /\ pc' = [pc EXCEPT ![r] = "Start"]
    /\ UNCHANGED <<access_token, id_token_claims, id_token_jwt, token_resp, userinfo,
                   result, exception, calls>>

\* line 64: token_request answers as it answered the first invocation: the same
\* token response, or the same transport error (any answer if it was not called)
TokenRequestAgain(r) ==
    /\ pc[r] = "token_request"
    /\ IF token_resp[First] # None
       THEN /\ token_resp' = [token_resp EXCEPT ![r] = token_resp[First]]
            /\ calls' = [calls EXCEPT ![r] = Append(@, Return("token_request"))]
            /\ pc' = [pc EXCEPT ![r] = "token_returned"]
            /\ UNCHANGED exception
       ELSE IF \E i \in DOMAIN calls[First] : calls[First][i] = Raised("token_request")
       THEN /\ calls' = [calls EXCEPT ![r] = Append(@, Raised("token_request"))]
            /\ Raise(r, TransportError)
            /\ UNCHANGED token_resp
       ELSE /\ \E tr \in TokenResponses : token_resp' = [token_resp EXCEPT ![r] = Some(tr)]
            /\ calls' = [calls EXCEPT ![r] = Append(@, Return("token_request"))]
            /\ pc' = [pc EXCEPT ![r] = "token_returned"]
            /\ UNCHANGED exception
    /\ UNCHANGED <<auth_response, expected_state, expected_nonce, access_token,
                   id_token_claims, id_token_jwt, userinfo, result>>

\* line 82: userinfo_request answers as it answered the first invocation
UserinfoRequestAgain(r) ==
    /\ pc[r] = "userinfo_request"
    /\ IF userinfo[First] # None
       THEN /\ userinfo' = [userinfo EXCEPT ![r] = userinfo[First]]
            /\ calls' = [calls EXCEPT ![r] = Append(@, Return("userinfo_request"))]
            /\ pc' = [pc EXCEPT ![r] = "UserInfoFetched"]
            /\ UNCHANGED exception
       ELSE IF \E i \in DOMAIN calls[First] : calls[First][i] = Raised("userinfo_request")
       THEN /\ calls' = [calls EXCEPT ![r] = Append(@, Raised("userinfo_request"))]
            /\ Raise(r, TransportError)
            /\ UNCHANGED userinfo
       ELSE /\ \E reply \in UserinfoReplies : userinfo' = [userinfo EXCEPT ![r] = Some(reply)]
            /\ calls' = [calls EXCEPT ![r] = Append(@, Return("userinfo_request"))]
            /\ pc' = [pc EXCEPT ![r] = "UserInfoFetched"]
            /\ UNCHANGED exception
    /\ UNCHANGED <<auth_response, expected_state, expected_nonce, access_token,
                   id_token_claims, id_token_jwt, token_resp, result>>

StepAgain(r) ==
    \/ InvokeAgain(r)
    \/ Classify(r)
    \/ ImplicitExtract(r)
    \/ TokenRequest(r)
    \/ TokenRequestAgain(r)
    \/ CodeExchange(r)
    \/ UserinfoRequest(r)
    \/ UserinfoRequestAgain(r)
    \/ Assemble(r)

NextRepeat == Step(First) \/ StepAgain(Second)

\* two invocations, one after the other
SpecRepeat == Init /\ [][NextRepeat]_vars

---------------------------------------------------------------------------
(* Two invocations on the same handler at the same time, their steps and      *)
(* collaborator calls interleaved                                             *)

\* lines 52-90 as a function of the arguments and of what the collaborators
\* answer (tok, ui: None when the call raises): the outcome of a run on its own
process_auth_response(ar, es, en, tok, ui) ==
    LET raised(exc) == [result |-> None, exception |-> Some(exc)]
        classify == ClassifyFailure(ar, es)
        hasCode == "code" \in DOMAIN ar
        exchange == IF hasCode /\ tok # None THEN ExchangeFailure(tok[1], en) ELSE None
        at == IF hasCode /\ tok # None
              THEN ExchangedAccessToken(ImplicitAccessToken(ar), tok[1])
              ELSE ImplicitAccessToken(ar)
        claims == IF hasCode /\ tok # None
                  THEN ExchangedIdTokenClaims(ImplicitIdTokenClaims(ar), tok[1])
                  ELSE ImplicitIdTokenClaims(ar)
        jwt == IF hasCode /\ tok # None
               THEN ExchangedIdTokenJwt(ImplicitIdTokenJwt(ar), tok[1])
               ELSE ImplicitIdTokenJwt(ar)
        uclaims == IF ui # None THEN UserinfoClaimsOf(ui[1]) ELSE None
        subject == SubjectFailure(claims, uclaims)
    IN  IF classify # None THEN raised(classify[1])
        ELSE IF hasCode /\ tok = None THEN raised(TransportError)
        ELSE IF exchange # None THEN raised(exchange[1])
        ELSE IF ui = None THEN raised(TransportError)
        ELSE IF subject # None THEN raised(subject[1])
        ELSE [result |-> Some(AuthenticationResult(at, claims, jwt, uclaims)),
              exception |-> None]

\* the arguments and replies of the concurrent invocations
ConcIdTokens == {[sub |-> "u1", nonce |-> "n1"], [sub |-> "u2", nonce |-> "n2"]}
ConcAuthResponses ==
    {Field("state", Some(s)) @@ Field("code", c) @@ Field("access_token", a)
        @@ Field("id_token", i) :
        s \in {"s1", "s2"}, c \in Opt(CodeVals), a \in Opt(AuthAccessTokens),
        i \in Opt(ConcIdTokens)}
ConcTokenResponses ==
    {Field("error", Some("access_denied"))}
    \cup {Field("access_token", Some("A2")) @@ Field("id_token", i)
            @@ Field("id_token_jwt", IF i = None THEN None ELSE Some("J2")) :
            i \in Opt(ConcIdTokens)}
ConcUserinfoReplies == {None, Some([sub |-> "u1"]), Some([sub |-> "u2"])}

InvokeConc(r) ==
    /\ Invoke(r)
    /\ auth_response'[r] \in ConcAuthResponses
    /\ expected_state'[r] \in {"s1", "s2"}
    /\ expected_nonce'[r] = Some("n1")

TokenRequestReturnConc(r) ==
    /\ TokenRequestReturn(r)
    /\ token_resp'[r][1] \in ConcTokenResponses

UserinfoRequestReturnConc(r) ==
    /\ UserinfoRequestReturn(r)
    /\ userinfo'[r][1] \in ConcUserinfoReplies

StepConc(r) ==
    \/ InvokeConc(r)
    \/ Classify(r)
    \/ ImplicitExtract(r)
    \/ TokenRequest(r)
    \/ TokenRequestReturnConc(r)
    \/ TokenRequestRaise(r)
    \/ CodeExchange(r)
    \/ UserinfoRequest(r)
    \/ UserinfoRequestReturnConc(r)
    \/ UserinfoRequestRaise(r)
    \/ Assemble(r)

NextConc == \E r \in Runs : StepConc(r)

\* two invocations at the same time
SpecConc == Init /\ [][NextConc]_vars

---------------------------------------------------------------------------
(* Vocabulary of the properties *)

\* the run has left the classification (lines 52-56)
PastClassify(r) == pc[r] \notin {"idle", "Start"}

\* the run ended by raising an exception of the given type
FailedWith(r, type) ==
    /\ pc[r] = "Failed"
    /\ exception[r] # None
    /\ exception[r][1].type = type
    /\ result[r] = None

\* how many times the run has called the collaborator operation
CallCount(r, op) ==
    Cardinality({i \in DOMAIN calls[r] : calls[r][i].op = op /\ calls[r][i].ev = "call"})

\* the run has handled the token response (lines 66-79)
PastExchange(r) == token_resp[r] # None /\ pc[r] # "token_returned"

\* the run has gone through the subject check (lines 83-90): userinfo_request returned
\* and the run ended
PastAssemble(r) == userinfo[r] # None /\ pc[r] \in {"Assembled", "Failed"}

\* the non-empty body of a reply of userinfo_request, None when there is none
Body(reply) == IF reply # None /\ DOMAIN reply[1] # {} THEN reply ELSE None

---------------------------------------------------------------------------
(* Properties *)

\* C1: an authorization response with an `error` key makes the run fail with
\* AuthResponseErrorResponseError carrying the authorization response, whatever
\* its other fields and the expected state and nonce are; no other check or call
\* comes first.
C1_ErrorTakesPriority ==
    \A r \in Runs :
        (PastClassify(r) /\ "error" \in DOMAIN auth_response[r]) =>
            /\ FailedWith(r, "AuthResponseErrorResponseError")
            /\ exception[r][1].error_response = Some(auth_response[r])
            /\ calls[r] = <<>>

\* C1 witness: a run failed on an error response that also brings a mismatching
\* state, a code, an access token and an ID token.
C1_Witness ==
    \E r \in Runs :
        /\ pc[r] = "Failed"
        /\ {"error", "state", "code", "access_token", "id_token"} \subseteq DOMAIN auth_response[r]
        /\ auth_response[r]["state"] # expected_state[r]
        /\ exception[r][1].type = "AuthResponseErrorResponseError"

\* C2: an error-free authorization response whose state differs from
\* expected_state makes the run fail with AuthResponseUnexpectedStateError, and
\* neither token_request nor userinfo_request has been called.
C2_StateMismatchBeforeCalls ==
    \A r \in Runs :
        (/\ PastClassify(r)
         /\ "error" \notin DOMAIN auth_response[r]
         /\ "state" \in DOMAIN auth_response[r]
         /\ auth_response[r]["state"] # expected_state[r]) =>
            /\ FailedWith(r, "AuthResponseUnexpectedStateError")
            /\ exception[r][1].error_response = None
            /\ CallCount(r, "token_request") = 0
            /\ CallCount(r, "userinfo_request") = 0

\* C2 witness: a run failed on a state mismatch although the response brought a
\* code and an access token.
C2_Witness ==
    \E r \in Runs :
        /\ pc[r] = "Failed"
        /\ "error" \notin DOMAIN auth_response[r]
        /\ {"state", "code", "access_token"} \subseteq DOMAIN auth_response[r]
        /\ auth_response[r]["state"] # expected_state[r]
        /\ exception[r][1].type = "AuthResponseUnexpectedStateError"
        /\ calls[r] = <<>>

\* C3: every returned AuthenticationResult with id_token_claims present has the
\* nonce of those claims equal to expected_nonce, whether the ID token came from
\* the code exchange or from the authorization response.
C3_NonceNeverSkipped ==
    \A r \in Runs :
        (result[r] # None /\ result[r][1].id_token_claims # None) =>
            Get(result[r][1].id_token_claims[1], "nonce") = expected_nonce[r]

\* C4: in a code-flow run whose token response has no error and holds an ID token
\* with a nonce other than expected_nonce, the run fails with
\* AuthResponseUnexpectedNonceError.
C4_NonceMismatchFails ==
    \A r \in Runs :
        (/\ PastExchange(r)
         /\ "error" \notin DOMAIN token_resp[r][1]
         /\ "id_token" \in DOMAIN token_resp[r][1]
         /\ "nonce" \in DOMAIN token_resp[r][1]["id_token"]
         /\ Some(token_resp[r][1]["id_token"]["nonce"]) # expected_nonce[r]) =>
            FailedWith(r, "AuthResponseUnexpectedNonceError")

\* C5: no returned result holds ID-token claims and userinfo claims with different
\* subs; after the subject check, different subs mean the run failed with
\* AuthResponseMismatchingSubjectError, and equal subs or an absent side mean the
\* result was returned.
C5_SubjectsAgree ==
    \A r \in Runs :
        /\ result[r] # None =>
            LET c == result[r][1].id_token_claims
                u == result[r][1].userinfo_claims
            IN (/\ c # None /\ u # None
                /\ "sub" \in DOMAIN c[1] /\ "sub" \in DOMAIN u[1]) => c[1]["sub"] = u[1]["sub"]
        /\ PastAssemble(r) =>
            LET c == id_token_claims[r]
                u == Body(userinfo[r][1])
                bothSubs == /\ c # None /\ u # None
                            /\ "sub" \in DOMAIN c[1] /\ "sub" \in DOMAIN u[1]
            IN /\ (bothSubs /\ c[1]["sub"] # u[1]["sub"]) =>
                    FailedWith(r, "AuthResponseMismatchingSubjectError")
               /\ ((bothSubs /\ c[1]["sub"] = u[1]["sub"]) \/ c = None \/ u = None) =>
                    /\ pc[r] = "Assembled"
                    /\ result[r] # None
                    /\ exception[r] = None

\* C5 witness: one run failed on different subs.
C5_Witness ==
    \E r \in Runs :
        /\ PastAssemble(r)
        /\ id_token_claims[r] # None /\ "sub" \in DOMAIN id_token_claims[r][1]
        /\ Body(userinfo[r][1]) # None /\ "sub" \in DOMAIN userinfo[r][1][1]
        /\ id_token_claims[r][1]["sub"] # userinfo[r][1][1]["sub"]
        /\ pc[r] = "Failed"

\* C6: a token response with an `error` key makes the run fail with
\* AuthResponseErrorResponseError carrying the token response, whatever tokens the
\* token response or the authorization response hold, and userinfo_request is not
\* called.
C6_TokenErrorFails ==
    \A r \in Runs :
        (PastExchange(r) /\ "error" \in DOMAIN token_resp[r][1]) =>
            /\ FailedWith(r, "AuthResponseErrorResponseError")
            /\ exception[r][1].error_response = token_resp[r]
            /\ CallCount(r, "userinfo_request") = 0

\* C6 witness: a run failed on a token response that holds an error beside an
\* access token and an ID token, the authorization response holding tokens too.
C6_Witness ==
    \E r \in Runs :
        /\ PastExchange(r)
        /\ {"error", "access_token", "id_token"} \subseteq DOMAIN token_resp[r][1]
        /\ {"access_token", "id_token"} \subseteq DOMAIN auth_response[r]
        /\ pc[r] = "Failed"
        /\ exception[r][1].error_response = token_resp[r]

\* C7: in a run with a code that returns a result, the result's access_token is
\* the token response's access_token, whatever access_token the authorization
\* response held.
C7_CodeFlowAccessToken ==
    \A r \in Runs :
        (result[r] # None /\ "code" \in DOMAIN auth_response[r]) =>
            /\ token_resp[r] # None
            /\ "access_token" \in DOMAIN token_resp[r][1]
            /\ result[r][1].access_token = Some(token_resp[r][1]["access_token"])
            /\ ("access_token" \in DOMAIN auth_response[r]
                /\ result[r][1].access_token = Some(auth_response[r]["access_token"]))
                    => token_resp[r][1]["access_token"] = auth_response[r]["access_token"]

\* C7 witness: a hybrid run returned the token response's access token, which
\* differs from the one of the authorization response.
C7_Witness ==
    \E r \in Runs :
        /\ result[r] # None
        /\ {"code", "access_token"} \subseteq DOMAIN auth_response[r]
        /\ token_resp[r] # None
        /\ "access_token" \in DOMAIN token_resp[r][1]
        /\ token_resp[r][1]["access_token"] # auth_response[r]["access_token"]
        /\ result[r][1].access_token = Some(token_resp[r][1]["access_token"])

\* C8: in a run without a code that returns a result, access_token,
\* id_token_claims and id_token_jwt of the result are the access_token, id_token
\* and id_token_jwt fields of the authorization response, None for a missing
\* field, and userinfo_claims is the body userinfo_request replied (None when it
\* replied no body).
C8_ImplicitFlowResult ==
    \A r \in Runs :
        (result[r] # None /\ "code" \notin DOMAIN auth_response[r]) =>
            /\ result[r][1].access_token = Get(auth_response[r], "access_token")
            /\ result[r][1].id_token_claims = Get(auth_response[r], "id_token")
            /\ result[r][1].id_token_jwt = Get(auth_response[r], "id_token_jwt")
            /\ userinfo[r] # None
            /\ result[r][1].userinfo_claims = Body(userinfo[r][1])
            /\ CallCount(r, "token_request") = 0

\* C8 witness: an implicit run returned a result holding all three fields of the
\* authorization response and userinfo claims.
C8_Witness ==
    \E r \in Runs :
        /\ result[r] # None
        /\ "code" \notin DOMAIN auth_response[r]
        /\ {"access_token", "id_token", "id_token_jwt"} \subseteq DOMAIN auth_response[r]
        /\ result[r][1].access_token # None
        /\ result[r][1].id_token_claims # None
        /\ result[r][1].id_token_jwt # None
        /\ result[r][1].userinfo_claims # None

\* C9: in a returned result userinfo_claims is present exactly when
\* userinfo_request replied a non-empty body, and is that body; after an empty
\* reply (None or an empty message) the run returns with userinfo_claims None and
\* raises no AuthResponseMismatchingSubjectError, whatever the ID token's sub.
C9_UserinfoClaimsIffBody ==
    \A r \in Runs :
        /\ result[r] # None =>
            /\ userinfo[r] # None
            /\ (result[r][1].userinfo_claims # None) <=> (Body(userinfo[r][1]) # None)
            /\ Body(userinfo[r][1]) # None => result[r][1].userinfo_claims = userinfo[r][1]
        /\ (PastAssemble(r) /\ Body(userinfo[r][1]) = None) =>
            /\ pc[r] = "Assembled"
            /\ exception[r] = None
            /\ result[r] # None
            /\ result[r][1].userinfo_claims = None

\* C9 witness: a run returned after an empty message (not None) as userinfo reply,
\* with ID-token claims that hold a sub.
C9_Witness ==
    \E r \in Runs :
        /\ result[r] # None
        /\ userinfo[r] = Some(Some(EmptyMap))
        /\ result[r][1].userinfo_claims = None
        /\ result[r][1].id_token_claims # None
        /\ "sub" \in DOMAIN result[r][1].id_token_claims[1]

\* C10: userinfo_request is called only after token_request, when there is one,
\* has returned a token response that passed the checks, and with the resolved
\* access token: the token response's access_token when a code was exchanged,
\* otherwise the authorization response's access_token or None. Each call ends
\* before the next starts, and token_request is never called after
\* userinfo_request.
C10_UserinfoAfterExchange ==
    \A r \in Runs :
        /\ \A i \in DOMAIN calls[r] :
            (calls[r][i].op = "userinfo_request" /\ calls[r][i].ev = "call") =>
                /\ IF "code" \in DOMAIN auth_response[r]
                   THEN /\ i = 3
                        /\ calls[r][1] = Call("token_request", Some(auth_response[r]["code"]))
                        /\ calls[r][2] = Return("token_request")
                        /\ token_resp[r] # None
                        /\ "error" \notin DOMAIN token_resp[r][1]
                        /\ "access_token" \in DOMAIN token_resp[r][1]
                        /\ calls[r][i].arg = Some(token_resp[r][1]["access_token"])
                   ELSE /\ i = 1
                        /\ calls[r][i].arg = Get(auth_response[r], "access_token")
                /\ \A j \in DOMAIN calls[r] : j > i => calls[r][j].op = "userinfo_request"
        /\ \A i \in DOMAIN calls[r] :
            (calls[r][i].ev = "call" /\ i < Len(calls[r])) =>
                /\ calls[r][i + 1].op = calls[r][i].op
                /\ calls[r][i + 1].ev \in {"return", "raise"}

\* C10 witness: a hybrid run called userinfo_request, after the exchange, with the
\* token response's access token, not the authorization response's.
C10_Witness ==
    \E r \in Runs :
        /\ Len(calls[r]) = 4
        /\ calls[r][3].op = "userinfo_request"
        /\ "access_token" \in DOMAIN auth_response[r]
        /\ calls[r][3].arg # Some(auth_response[r]["access_token"])
        /\ calls[r][3].arg = Some(token_resp[r][1]["access_token"])

\* C11: a run calls token_request at most once and userinfo_request at most once;
\* when either call raises a transport error the run has failed with that error,
\* the raise is the last entry of the call log and no result is returned.
C11_NoRetry ==
    \A r \in Runs :
        /\ CallCount(r, "token_request") <= 1
        /\ CallCount(r, "userinfo_request") <= 1
        /\ \A i \in DOMAIN calls[r] :
            calls[r][i].ev = "raise" =>
                /\ i = Len(calls[r])
                /\ pc[r] = "Failed"
                /\ exception[r] = Some(TransportError)
                /\ result[r] = None

\* C11 witness: token_request raised in one run: the run failed with the transport
\* error and never called userinfo_request.
C11_Witness ==
    \E r \in Runs :
        /\ Len(calls[r]) = 2
        /\ calls[r][2] = Raised("token_request")
        /\ pc[r] = "Failed"
        /\ exception[r] = Some(TransportError)
        /\ CallCount(r, "userinfo_request") = 0

\* the kinds of failure the error taxonomy names
TaxonomyKinds ==
    {"AuthResponseErrorResponseError", "AuthResponseUnexpectedStateError",
     "AuthResponseUnexpectedNonceError", "AuthResponseMismatchingSubjectError",
     "TransportError"}

\* C12: a run that returns no AuthenticationResult ends with one of the five kinds
\* of the error taxonomy, whatever keys the authorization response, the token
\* response and the userinfo reply hold or miss.
C12_OnlyTaxonomyFailures ==
    \A r \in Runs :
        pc[r] = "Failed" =>
            /\ exception[r] # None
            /\ exception[r][1].type \in TaxonomyKinds

\* position of a stage in the order Start, Classified, ImplicitExtracted,
\* [CodeExchanged], UserInfoFetched, Assembled; a call in flight lies between the
\* stages it connects, and the two ends come last
StageRank(p) ==
    CASE p = "idle" -> 0
      [] p = "Start" -> 1
      [] p = "Classified" -> 2
      [] p = "ImplicitExtracted" -> 3
      [] p = "token_request" -> 4
      [] p = "token_returned" -> 5
      [] p = "CodeExchanged" -> 6
      [] p = "userinfo_request" -> 7
      [] p = "UserInfoFetched" -> 8
      [] p = "Assembled" -> 9
      [] p = "Failed" -> 9

\* the run is over
Terminal(r) == pc[r] \in {"Assembled", "Failed"}

\* C13: when no collaborator call hangs, every invoked run ends, either Assembled
\* with an AuthenticationResult or Failed with an exception and no result, never
\* both; each step moves the run to a later stage, so no stage is visited twice,
\* and a run that is over stays as it ended.
C13_SinglePass ==
    /\ \A r \in Runs : (pc[r] = "Start") ~> Terminal(r)
    /\ [](\A r \in Runs :
            /\ (pc[r] = "Assembled") <=> (result[r] # None)
            /\ (pc[r] = "Failed") <=> (exception[r] # None)
            /\ ~(result[r] # None /\ exception[r] # None))
    /\ [][\A r \in Runs :
            /\ pc'[r] # pc[r] => StageRank(pc'[r]) > StageRank(pc[r])
            /\ Terminal(r) =>
                (pc'[r] = pc[r] /\ result'[r] = result[r] /\ exception'[r] = exception[r])]_vars

\* C13 witness: a run went through the code exchange and the userinfo call and
\* then failed in the last stage, with no result.
C13_Witness ==
    \E r \in Runs :
        /\ pc[r] = "Failed"
        /\ Len(calls[r]) = 4
        /\ userinfo[r] # None
        /\ result[r] = None
        /\ exception[r][1].type = "AuthResponseMismatchingSubjectError"

\* C14: a second invocation with the arguments of the first, against
\* collaborators that answer as they answered the first, ends as the first ended:
\* the same AuthenticationResult, or the same exception with the same payload.
C14_Deterministic ==
    (/\ pc[First] \in {"Assembled", "Failed"}
     /\ pc[Second] \in {"Assembled", "Failed"}
     /\ auth_response[Second] = auth_response[First]
     /\ expected_state[Second] = expected_state[First]
     /\ expected_nonce[Second] = expected_nonce[First]) =>
        /\ pc[Second] = pc[First]
        /\ result[Second] = result[First]
        /\ exception[Second] = exception[First]

\* C14 witness: both invocations went through the code exchange and the userinfo
\* call and returned a result.
C14_Witness ==
    /\ pc[First] = "Assembled"
    /\ pc[Second] = "Assembled"
    /\ Len(calls[First]) = 4
    /\ Len(calls[Second]) = 4
    /\ result[Second] # None
    /\ result[Second][1].userinfo_claims # None

\* C15: in every interleaving of two invocations on the same handler, each
\* invocation ends as it would have ended on its own with its arguments and the
\* replies its collaborator calls got.
C15_NoInterference ==
    \A r \in Runs :
        Terminal(r) =>
            LET alone == process_auth_response(auth_response[r], expected_state[r],
                                               expected_nonce[r], token_resp[r], userinfo[r])
            IN /\ result[r] = alone.result
               /\ exception[r] = alone.exception

\* C15 witness: two invocations with different tokens and claims were both in
\* flight after their extraction, and both returned, each its own result.
C15_Witness ==
    /\ pc[1] = "Assembled"
    /\ pc[2] = "Assembled"
    /\ result[1][1].access_token = Some("A1")
    /\ result[2][1].access_token = Some("A2")
    /\ result[1][1].id_token_claims # None
    /\ result[2][1].id_token_claims # None
    /\ result[1][1].id_token_claims # result[2][1].id_token_claims
    /\ result[1][1].userinfo_claims # result[2][1].userinfo_claims

\* C16: in a run with a code that returns a result, a token response with an
\* id_token gives the result its id_token_claims and its id_token_jwt (None when
\* the token response holds no id_token_jwt), whatever the authorization response
\* held; a token response without id_token leaves the result the id_token_claims
\* and id_token_jwt of the authorization response.
C16_CodeFlowIdToken ==
    \A r \in Runs :
        (result[r] # None /\ "code" \in DOMAIN auth_response[r]) =>
            /\ token_resp[r] # None
            /\ IF "id_token" \in DOMAIN token_resp[r][1]
               THEN /\ result[r][1].id_token_claims = Some(token_resp[r][1]["id_token"])
                    /\ result[r][1].id_token_jwt = Get(token_resp[r][1], "id_token_jwt")
                    /\ Get(token_resp[r][1]["id_token"], "nonce") = expected_nonce[r]
               ELSE /\ result[r][1].id_token_claims = Get(auth_response[r], "id_token")
                    /\ result[r][1].id_token_jwt = Get(auth_response[r], "id_token_jwt")

\* C16 witness: a hybrid run whose authorization response held an id_token and an
\* id_token_jwt returned the token response's other id_token and no id_token_jwt,
\* the token response holding none.
C16_Witness ==
    \E r \in Runs :
        /\ result[r] # None
        /\ {"code", "id_token", "id_token_jwt"} \subseteq DOMAIN auth_response[r]
        /\ "id_token" \in DOMAIN token_resp[r][1]
        /\ "id_token_jwt" \notin DOMAIN token_resp[r][1]
        /\ token_resp[r][1]["id_token"] # auth_response[r]["id_token"]
        /\ result[r][1].id_token_claims = Some(token_resp[r][1]["id_token"])
        /\ result[r][1].id_token_jwt = None

\* the run is past line 63, where token_request is made or passed over
PastCodeTest(r) == pc[r] \notin {"idle", "Start", "Classified", "ImplicitExtracted"}

\* C17: a run calls token_request exactly when its authorization response holds
\* no error, its state is expected_state and it holds a code, and then with that
\* code; without a code token_request is never called.
C17_TokenRequestIffCode ==
    \A r \in Runs :
        LET wanted == /\ "error" \notin DOMAIN auth_response[r]
                      /\ "state" \in DOMAIN auth_response[r]
                      /\ auth_response[r]["state"] = expected_state[r]
                      /\ "code" \in DOMAIN auth_response[r]
        IN /\ CallCount(r, "token_request") > 0 =>
                /\ wanted
                /\ calls[r][1] = Call("token_request", Some(auth_response[r]["code"]))
                /\ CallCount(r, "token_request") = 1
           /\ (PastCodeTest(r) /\ wanted) => CallCount(r, "token_request") = 1
           /\ "code" \notin DOMAIN auth_response[r] => CallCount(r, "token_request") = 0

\* C17 witness: a run whose authorization response held a code called
\* token_request with that code and returned.
C17_Witness ==
    \E r \in Runs :
        /\ pc[r] = "Assembled"
        /\ "code" \in DOMAIN auth_response[r]
        /\ calls[r][1] = Call("token_request", Some("c1"))

\* C18: a code-flow token response without error whose id_token holds a nonce
\* other than expected_nonce makes the run fail with
\* AuthResponseUnexpectedNonceError with userinfo_request never called, so never
\* with AuthResponseMismatchingSubjectError; and a run fails with
\* AuthResponseMismatchingSubjectError only after userinfo_request was called and
\* returned a non-empty reply.
C18_FailuresFollowStageOrder ==
    \A r \in Runs :
        /\ (/\ PastExchange(r)
            /\ "error" \notin DOMAIN token_resp[r][1]
            /\ "id_token" \in DOMAIN token_resp[r][1]
            /\ "nonce" \in DOMAIN token_resp[r][1]["id_token"]
            /\ Some(token_resp[r][1]["id_token"]["nonce"]) # expected_nonce[r]) =>
                /\ FailedWith(r, "AuthResponseUnexpectedNonceError")
                /\ CallCount(r, "userinfo_request") = 0
        /\ (exception[r] # None
            /\ exception[r][1].type = "AuthResponseMismatchingSubjectError") =>
                /\ CallCount(r, "userinfo_request") = 1
                /\ calls[r][Len(calls[r])] = Return("userinfo_request")
                /\ userinfo[r] # None
                /\ Body(userinfo[r][1]) # None

\* the part of C18 on the order alone: a run that failed on the nonce made no
\* userinfo_request, a wrong nonce never ends in a subject mismatch, and a subject
\* mismatch comes only after a non-empty userinfo reply
C18_OrderOfFailures ==
    \A r \in Runs :
        /\ (exception[r] # None
            /\ exception[r][1].type = "AuthResponseUnexpectedNonceError") =>
                CallCount(r, "userinfo_request") = 0
        /\ (/\ PastExchange(r)
            /\ "id_token" \in DOMAIN token_resp[r][1]
            /\ "nonce" \in DOMAIN token_resp[r][1]["id_token"]
            /\ Some(token_resp[r][1]["id_token"]["nonce"]) # expected_nonce[r]) =>
                /\ pc[r] = "Failed"
                /\ exception[r][1].type # "AuthResponseMismatchingSubjectError"
                /\ CallCount(r, "userinfo_request") = 0
        /\ (exception[r] # None
            /\ exception[r][1].type = "AuthResponseMismatchingSubjectError") =>
                /\ CallCount(r, "userinfo_request") = 1
                /\ userinfo[r] # None
                /\ Body(userinfo[r][1]) # None

\* the run got through the classification (lines 52-56) and, with a code, through
\* the checks of the token response (lines 66-76)
PassedChecks(r) ==
    /\ "error" \notin DOMAIN auth_response[r]
    /\ "state" \in DOMAIN auth_response[r]
    /\ auth_response[r]["state"] = expected_state[r]
    /\ "code" \in DOMAIN auth_response[r] =>
        /\ token_resp[r] # None
        /\ "error" \notin DOMAIN token_resp[r][1]
        /\ "access_token" \in DOMAIN token_resp[r][1]
        /\ "id_token" \in DOMAIN token_resp[r][1] =>
            /\ "nonce" \in DOMAIN token_resp[r][1]["id_token"]
            /\ Some(token_resp[r][1]["id_token"]["nonce"]) = expected_nonce[r]

\* C19: a run that got through the classification and, with a code, through the
\* token-error and nonce checks calls userinfo_request exactly once, also when the
\* resolved access token is None: it is then called with None.
C19_UserinfoAlwaysRequested ==
    \A r \in Runs :
        /\ CallCount(r, "userinfo_request") <= 1
        /\ (Terminal(r) /\ PassedChecks(r)) =>
            /\ CallCount(r, "userinfo_request") = 1
            /\ \E i \in DOMAIN calls[r] :
                calls[r][i] = Call("userinfo_request",
                                   IF "code" \in DOMAIN auth_response[r]
                                   THEN Some(token_resp[r][1]["access_token"])
                                   ELSE Get(auth_response[r], "access_token"))

\* C19 witness: a run without code and without access token called
\* userinfo_request with None and returned.
C19_Witness ==
    \E r \in Runs :
        /\ pc[r] = "Assembled"
        /\ "code" \notin DOMAIN auth_response[r]
        /\ "access_token" \notin DOMAIN auth_response[r]
        /\ calls[r][1] = Call("userinfo_request", None)
        /\ result[r][1].access_token = None

\* C20: AuthResponseUnexpectedStateError carries no payload and no message: two
\* runs that fail on a state mismatch, whatever states they received and
\* expected, end with the same exception, no result and no call made.
C20_StateErrorTellsNothing ==
    \A r \in Runs, q \in Runs :
        (/\ pc[r] = "Failed"
         /\ pc[q] = "Failed"
         /\ exception[r][1].type = "AuthResponseUnexpectedStateError"
         /\ exception[q][1].type = "AuthResponseUnexpectedStateError") =>
            /\ exception[r] = exception[q]
            /\ exception[r][1].error_response = None
            /\ exception[r][1].message = None
            /\ result[r] = None /\ result[q] = None
            /\ calls[r] = <<>> /\ calls[q] = <<>>

\* C20 witness: two runs failed on a state mismatch, the received and the expected
\* state of the one being the expected and the received state of the other, the
\* rest of the authorization responses equal.
C20_Witness ==
    /\ pc[1] = "Failed"
    /\ pc[2] = "Failed"
    /\ exception[1][1].type = "AuthResponseUnexpectedStateError"
    /\ exception[2][1].type = "AuthResponseUnexpectedStateError"
    /\ auth_response[1]["state"] = expected_state[2]
    /\ auth_response[2]["state"] = expected_state[1]
    /\ auth_response[1]["state"] # auth_response[2]["state"]
    /\ [k \in DOMAIN auth_response[1] \ {"state"} |-> auth_response[1][k]]
        = [k \in DOMAIN auth_response[2] \ {"state"} |-> auth_response[2][k]]

===========================================================================
